---- MODULE Spec2Model ----
(***************************************************************************)
(* The upload-to-extraction pipeline of src/index.js: multer intake        *)
(* (fileFilter, size limit, disk storage under uploads/), the two route    *)
(* handlers POST /upload and POST /upload-readable, the exiftool.read      *)
(* calls they await, the delayed fs.unlink of the temp file, and the       *)
(* error-handling middleware.                                              *)
(***************************************************************************)
EXTENDS Integers, Sequences, FiniteSets, TLC

\* Number of requests the model lets arrive (they may be in flight together).
NumReq == 2

Requests == 1..NumReq

\* limits.fileSize of the multer configuration.
MaxFileSize == 50 * 1024 * 1024

\* The field name given to upload.single().
UploadField == "image"

\* ------------------------------------------------------------------ inputs

Endpoints == {"/upload", "/upload-readable"}

\* Field names a client may put its file part under.
FieldNames == {"image", "file"}

\* Declared MIME types a client may send.
MimeTypes == {"image/jpeg", "image/jpg", "image/jpeg2000", "image/png"}

\* Sizes in bytes of the file part: 2 MiB, and one byte over the ceiling.
Sizes == {2097152, MaxFileSize + 1}

\* Sizes for the size formatting: the multiples of 2^17 bytes up to
\* MaxSizeSteps of them (every odd one lies exactly half way between two
\* hundredths of a MiB), and sizes next to where the text changes, at both
\* ends of the accepted range.
MaxSizeSteps == 9
SizeSamples ==
    { k * 131072 : k \in 0..MaxSizeSteps }
    \cup {1, 5242, 5243, 15728, 15729, 1048575, 1053818, 1053819,
          52423557, 52423558, MaxFileSize - 1, MaxFileSize}

\* What the bytes of the file part are: not parseable by the tool, a JPEG
\* with EXIF but no maker-notes section, a JPEG with a maker-notes section.
Contents == {"corrupt", "exif", "exif+makernotes"}

\* ------------------------------------------------------- JavaScript values

null == [t |-> "null", keys |-> {}, s |-> ""]
Obj(keys) == [t |-> "object", keys |-> keys, s |-> ""]
Str(s) == [t |-> "string", keys |-> {}, s |-> s]

\* JavaScript truthiness: null and the empty string are falsy, every object
\* (an empty one too) is truthy.
Truthy(v) == \/ v.t = "object"
             \/ v.t = "string" /\ v.s /= ""

\* a && b, written where a || b was meant.
AndAlso(a, b) == IF Truthy(a) THEN b ELSE a

\* a || b
OrElse(a, b) == IF Truthy(a) THEN a ELSE b

\* String.prototype.startsWith
startsWith(s, p) == Len(s) >= Len(p) /\ SubSeq(s, 1, Len(p)) = p

\* ------------------------------------------------------------------ errors

NoError == [multer |-> FALSE, code |-> "", message |-> "none"]
MulterError(code, message) == [multer |-> TRUE, code |-> code, message |-> message]
Error(message) == [multer |-> FALSE, code |-> "", message |-> message]

NoFile == [path |-> 0, mimetype |-> "", size |-> 0]

PlaceholderText == "No makernotes found or not readable"

\* --------------------------------------------------------- multer (intake)

\* fileFilter: accept only JPEG files (cb(null, true)), else
\* cb(new Error('Only JPEG files are allowed!'), false).
fileFilter(mimetype) ==
    startsWith(mimetype, "image/jpeg") \/ startsWith(mimetype, "image/jpg")

\* upload.single('image'): a file part under any other field is refused
\* with MulterError LIMIT_UNEXPECTED_FILE before fileFilter is asked.
ExpectedField(fieldname) == fieldname = UploadField

\* No size limit enforced.
OverLimitNever(size) == FALSE

\* limits.fileSize: the part is cut and LIMIT_FILE_SIZE raised once more
\* bytes than the limit arrive.
OverLimit(size) == size > MaxFileSize

\* ------------------------------------------------- exiftool.read (external)

FullTags(content) ==
    IF content = "exif+makernotes"
    THEN {"File:FileName", "EXIF:Make", "MakerNotes:LensType"}
    ELSE {"File:FileName", "EXIF:Make"}

MakerTags == {"MakerNotes:LensType"}

Resolved(value) == [ok |-> TRUE, value |-> value, message |-> ""]
Rejected(message) == [ok |-> FALSE, value |-> null, message |-> message]

\* The outcomes of exiftool.read(filePath, ['-all', ...]) on a directory
\* `dir` (path -> content): the tool fails on a missing or corrupt file,
\* and its child process may fail on any call.
ReadAll(dir, path) ==
    IF path \notin DOMAIN dir THEN {Rejected("ENOENT")}
    ELSE IF dir[path] = "corrupt" THEN {Rejected("File format error")}
    ELSE {Resolved(Obj(FullTags(dir[path]))), Rejected("BatchCluster has ended")}

\* The outcomes of exiftool.read(filePath, ['-makernotes:all', ...]): a
\* mapping of the maker-notes tags when the section is there and readable,
\* a rejection when it is absent, unreadable, or the tool fails.
ReadMakernotes(dir, path) ==
    IF path \notin DOMAIN dir THEN {Rejected("ENOENT")}
    ELSE IF dir[path] = "exif+makernotes"
         THEN {Resolved(Obj(MakerTags)), Rejected("BatchCluster has ended")}
         ELSE {Rejected("no makernotes")}

\* ------------------------------------------------------- response shaping

NoInfo == [size |-> 0, sizeText |-> "", mimetype |-> ""]

Digits2(n) == IF n < 10 THEN "0" \o ToString(n) ELSE ToString(n)

\* A formatting that cuts the quotient off after two decimals.
toFixed2MBTruncated(size) ==
    LET h == (size * 25) \div 262144
    IN  ToString(h \div 100) \o "." \o Digits2(h % 100)

\* (size / 1024 / 1024).toFixed(2): size / 2^20 is exact in a double, and
\* toFixed picks the nearest hundredth, the larger one on a tie. The
\* hundredths h = floor(size * 100 / 2^20 + 1/2), written with the fraction
\* reduced by 4 so that every product stays below 2^31.
toFixed2MB(size) ==
    LET h == (size * 25 + 131072) \div 262144
    IN  ToString(h \div 100) \o "." \o Digits2(h % 100)

\* res.status(status).json({ error })
ErrorJson(status, message) ==
    [status |-> status,
     body |-> [fields |-> {"error"}, error |-> message, details |-> "",
               info |-> NoInfo, metadata |-> null, makernotes |-> null]]

\* A catch block that hides the tool's message behind the generic error.
catchResponseGeneric(message) == ErrorJson(500, "An unexpected error occurred.")

\* The catch block of both routes:
\* res.status(500).json({ error: 'Error processing image', details: err.message })
catchResponse(message) ==
    [status |-> 500,
     body |-> [fields |-> {"error", "details"}, error |-> "Error processing image",
               details |-> message,
               info |-> NoInfo, metadata |-> null, makernotes |-> null]]

\* The maker-notes promise awaited without its .catch.
catchNothing(outcome) == outcome

\* .catch(() => null) on the maker-notes promise.
catchNull(outcome) == IF outcome.ok THEN outcome ELSE Resolved(null)

\* fullMetadata of POST /upload, sent by res.json (status 200).
buildFull(f, tags, makernoteTags) ==
    [status |-> 200,
     body |-> [fields |-> {"basicInfo", "metadata", "makernotes"},
               error |-> "", details |-> "",
               info |-> [size |-> f.size, sizeText |-> "", mimetype |-> f.mimetype],
               metadata |-> tags,
               makernotes |-> OrElse(makernoteTags, Str(PlaceholderText))]]

\* formattedMetadata of POST /upload-readable, sent by res.json (status 200).
buildReadable(f, readableTags) ==
    [status |-> 200,
     body |-> [fields |-> {"fileInfo", "metadata"},
               error |-> "", details |-> "",
               info |-> [size |-> f.size, sizeText |-> toFixed2MB(f.size) \o " MB",
                         mimetype |-> f.mimetype],
               metadata |-> readableTags,
               makernotes |-> null]]

\* The middleware without its MulterError branch.
errorHandlerMessageOnly(error) ==
    IF error.message = "Only JPEG files are allowed!"
    THEN ErrorJson(400, "Only JPEG files are allowed!")
    ELSE ErrorJson(500, "An unexpected error occurred.")

\* The error-handling middleware.
errorHandler(error) ==
    IF error.multer /\ error.code = "LIMIT_FILE_SIZE"
    THEN ErrorJson(400, "File too large. Maximum size is 50MB.")
    ELSE IF error.message = "Only JPEG files are allowed!"
    THEN ErrorJson(400, "Only JPEG files are allowed!")
    ELSE ErrorJson(500, "An unexpected error occurred.")

\* ------------------------------------------------------------------- state

VARIABLES
    req,          \* per request: the request as it arrived
    pc,           \* per request: where its handling stands
    file,         \* per request: req.file (NoFile while undefined)
    error,        \* per request: the error multer passed to next(err)
    tags,         \* per request: the settled result of the full read
    makernoteTags,\* per request: the maker-notes result after its .catch
    caught,       \* per request: err of the route's catch block
    calls,        \* per request: the exiftool.read calls issued, in order
    settledCalls, \* per request: how many of those calls have settled
    connected,    \* per request: the client's connection is still open
    responses,    \* per request: the responses sent on res, in order
    unlinks,      \* per request: the fs.unlink calls made on its temp file
    stored,       \* per request: the path multer wrote its part to (0: none)
    uploads,      \* the uploads/ directory: path -> content of the file
    pathCounter   \* number of file names multer has generated so far

vars == <<req, pc, file, error, tags, makernoteTags, caught, calls,
          settledCalls, connected, responses, unlinks, stored, uploads, pathCounter>>

NoRequest ==
    [endpoint |-> "", part |-> FALSE, fieldname |-> "", mimetype |-> "",
     size |-> 0, content |-> ""]

\* The requests a client may send: no file part, or one file part with its
\* field name, declared MIME type and size. What the bytes of the part are
\* (content) shows when multer streams them to disk.
RequestInputs ==
    { [endpoint |-> e, part |-> FALSE, fieldname |-> "", mimetype |-> "",
       size |-> 0, content |-> ""] : e \in Endpoints }
    \cup
    [endpoint : Endpoints, part : {TRUE}, fieldname : FieldNames,
     mimetype : MimeTypes, size : Sizes, content : {""}]

Init ==
    /\ req = [r \in Requests |-> NoRequest]
    /\ pc = [r \in Requests |-> "idle"]
    /\ file = [r \in Requests |-> NoFile]
    /\ error = [r \in Requests |-> NoError]
    /\ tags = [r \in Requests |-> null]
    /\ makernoteTags = [r \in Requests |-> null]
    /\ caught = [r \in Requests |-> NoError]
    /\ calls = [r \in Requests |-> <<>>]
    /\ settledCalls = [r \in Requests |-> 0]
    /\ connected = [r \in Requests |-> TRUE]
    /\ responses = [r \in Requests |-> <<>>]
    /\ unlinks = [r \in Requests |-> <<>>]
    /\ stored = [r \in Requests |-> 0]
    /\ uploads = <<>>
    /\ pathCounter = 0

\* A storage that names the file after what the client sent, the same name
\* for every upload of that file.
originalName(counter) == 1

\* The file name multer's disk storage generates for the next part (random
\* bytes in hex): one it has not handed out before.
generatedName(counter) == counter + 1

\* The directory with `path` holding `content`, and with `path` removed.
WriteFile(dir, path, content) ==
    [p \in DOMAIN dir \cup {path} |-> IF p = path THEN content ELSE dir[p]]
RemoveFile(dir, path) == [p \in DOMAIN dir \ {path} |-> dir[p]]

\* fs.unlink(path, cb): the outcomes cb may be called with. A missing file
\* is an error (ENOENT); an existing one is removed, or the call fails
\* (EPERM, EBUSY) and the file stays.
UnlinkOutcomes(dir, path) == IF path \in DOMAIN dir THEN {TRUE, FALSE} ELSE {FALSE}

\* exiftool.read(path, [...]) as issued: which of the two argument lists,
\* and on which path.
ReadCall(kind, path) == [kind |-> kind, path |-> path]

\* res.json(...) / res.status(..).json(...) on the response of request r.
Send(r, response) == responses' = [responses EXCEPT ![r] = Append(@, response)]

\* The timer armed at the end of the try block only, so not after a throw.
afterFinallyTryOnly(thrown) == IF thrown THEN "done" ELSE "timer"

\* The finally block of both routes, entered whether or not the try block
\* threw: setTimeout(() => fs.unlink(filePath, ...), 1000). The handler's
\* next state is the armed timer.
afterFinally(thrown) == "timer"

\* ----------------------------------------------------------------- actions

\* A client sends a POST to one of the two routes.
Receive(r) ==
    /\ pc[r] = "idle"
    /\ \A q \in Requests : q < r => pc[q] /= "idle"
    /\ \E input \in RequestInputs : req' = [req EXCEPT ![r] = input]
    /\ pc' = [pc EXCEPT ![r] = "multer"]
    /\ UNCHANGED <<file, error, tags, makernoteTags, caught, calls, responses,
                   unlinks, stored, uploads, pathCounter, settledCalls,
                   connected>>

\* upload.single('image') meets the file part (or the end of the body with
\* none): the field check, then fileFilter.
MulterFilter(r) ==
    /\ pc[r] = "multer"
    /\ IF ~req[r].part
       THEN /\ pc' = [pc EXCEPT ![r] = "route"]
            /\ UNCHANGED error
       ELSE IF ~ExpectedField(req[r].fieldname)
       THEN /\ error' = [error EXCEPT ![r] =
                            MulterError("LIMIT_UNEXPECTED_FILE", "Unexpected field")]
            /\ pc' = [pc EXCEPT ![r] = "errorHandler"]
       ELSE IF ~fileFilter(req[r].mimetype)
       THEN /\ error' = [error EXCEPT ![r] = Error("Only JPEG files are allowed!")]
            /\ pc' = [pc EXCEPT ![r] = "errorHandler"]
       ELSE /\ pc' = [pc EXCEPT ![r] = "store"]
            /\ UNCHANGED error
    /\ UNCHANGED <<req, file, tags, makernoteTags, caught, calls, responses,
                   unlinks, stored, uploads, pathCounter, settledCalls,
                   connected>>

\* Disk storage (dest: 'uploads/'): the bytes of the part are streamed to a
\* file under a fresh generated name. Within the limit it becomes req.file;
\* over it the write is cut short (what is on disk is no whole image) and
\* multer aborts with LIMIT_FILE_SIZE.
MulterStore(r) ==
    /\ pc[r] = "store"
    /\ pathCounter' = pathCounter + 1
    /\ stored' = [stored EXCEPT ![r] = generatedName(pathCounter)]
    /\ IF OverLimit(req[r].size)
       THEN /\ req' = [req EXCEPT ![r].content = "corrupt"]
            /\ uploads' = WriteFile(uploads, stored'[r], "corrupt")
            /\ error' = [error EXCEPT ![r] =
                            MulterError("LIMIT_FILE_SIZE", "File too large")]
            /\ pc' = [pc EXCEPT ![r] = "abort"]
            /\ UNCHANGED file
       ELSE /\ \E content \in Contents :
                  /\ req' = [req EXCEPT ![r].content = content]
                  /\ uploads' = WriteFile(uploads, stored'[r], content)
            /\ file' = [file EXCEPT ![r] =
                           [path |-> stored'[r], mimetype |-> req[r].mimetype,
                            size |-> req[r].size]]
            /\ pc' = [pc EXCEPT ![r] = "route"]
            /\ UNCHANGED error
    /\ UNCHANGED <<tags, makernoteTags, caught, calls, responses, unlinks,
                   settledCalls, connected>>

\* multer's abort: it removes the file it wrote (storage._removeFile, an
\* fs.unlink) and only then passes the error on.
MulterAbort(r) ==
    /\ pc[r] = "abort"
    /\ \E ok \in UnlinkOutcomes(uploads, stored[r]) :
          /\ unlinks' = [unlinks EXCEPT ![r] =
                            Append(@, [path |-> stored[r], by |-> "multer", ok |-> ok])]
          /\ uploads' = IF ok THEN RemoveFile(uploads, stored[r]) ELSE uploads
    /\ pc' = [pc EXCEPT ![r] = "errorHandler"]
    /\ UNCHANGED <<req, file, error, tags, makernoteTags, caught, calls,
                   responses, stored, pathCounter, settledCalls,
                   connected>>

\* app.use((error, req, res, next) => ...)
ErrorMiddleware(r) ==
    /\ pc[r] = "errorHandler"
    /\ Send(r, errorHandler(error[r]))
    /\ pc' = [pc EXCEPT ![r] = "done"]
    /\ UNCHANGED <<req, file, error, tags, makernoteTags, caught, calls,
                   unlinks, stored, uploads, pathCounter, settledCalls,
                   connected>>

\* The !req.file check without its return: the 400 is sent and the handler
\* goes on to read req.file.path.
RouteStartNoReturn(r) ==
    /\ pc[r] = "route"
    /\ IF file[r] = NoFile
       THEN Send(r, ErrorJson(400, "No file uploaded."))
       ELSE UNCHANGED responses
    /\ calls' = [calls EXCEPT ![r] = Append(@, ReadCall("full", file[r].path))]
    /\ pc' = [pc EXCEPT ![r] = "readFull"]
    /\ UNCHANGED <<req, file, error, tags, makernoteTags, caught, unlinks,
                   stored, uploads, pathCounter, settledCalls,
                   connected>>

\* A handler of /upload that starts both reads together (Promise.all)
\* instead of one after the other.
RouteStartConcurrent(r) ==
    /\ pc[r] = "route"
    /\ IF file[r] = NoFile
       THEN /\ Send(r, ErrorJson(400, "No file uploaded."))
            /\ pc' = [pc EXCEPT ![r] = "done"]
            /\ UNCHANGED calls
       ELSE /\ calls' = [calls EXCEPT ![r] =
                           IF req[r].endpoint = "/upload"
                           THEN @ \o <<ReadCall("full", file[r].path),
                                       ReadCall("makernotes", file[r].path)>>
                           ELSE Append(@, ReadCall("full", file[r].path))]
            /\ pc' = [pc EXCEPT ![r] = "readFull"]
            /\ UNCHANGED responses
    /\ UNCHANGED <<req, file, error, tags, makernoteTags, caught, unlinks,
                   stored, uploads, pathCounter, settledCalls,
                   connected>>

\* The route handler up to its first await: the !req.file check, then the
\* full exiftool.read is issued on req.file.path.
RouteStart(r) ==
    /\ pc[r] = "route"
    /\ IF file[r] = NoFile
       THEN /\ Send(r, ErrorJson(400, "No file uploaded."))
            /\ pc' = [pc EXCEPT ![r] = "done"]
            /\ UNCHANGED calls
       ELSE /\ calls' = [calls EXCEPT ![r] =
                           Append(@, ReadCall("full", file[r].path))]
            /\ pc' = [pc EXCEPT ![r] = "readFull"]
            /\ UNCHANGED responses
    /\ UNCHANGED <<req, file, error, tags, makernoteTags, caught, unlinks,
                   stored, uploads, pathCounter, settledCalls,
                   connected>>

\* A handler with a retry policy: a full read that is rejected is issued
\* once more before the failure is surfaced.
FullSettleRetry(r) ==
    /\ pc[r] = "readFull"
    /\ settledCalls' = [settledCalls EXCEPT ![r] = @ + 1]
    /\ \E outcome \in ReadAll(uploads, file[r].path) :
          IF ~outcome.ok /\ Len(calls[r]) < 2
          THEN /\ calls' = [calls EXCEPT ![r] =
                              Append(@, ReadCall("full", file[r].path))]
               /\ UNCHANGED <<tags, caught, responses, pc>>
          ELSE IF ~outcome.ok
          THEN /\ caught' = [caught EXCEPT ![r] = Error(outcome.message)]
               /\ Send(r, catchResponse(outcome.message))
               /\ pc' = [pc EXCEPT ![r] = afterFinally(TRUE)]
               /\ UNCHANGED <<tags, calls>>
          ELSE IF req[r].endpoint = "/upload"
          THEN /\ tags' = [tags EXCEPT ![r] = outcome.value]
               /\ calls' = [calls EXCEPT ![r] =
                              Append(@, ReadCall("makernotes", file[r].path))]
               /\ pc' = [pc EXCEPT ![r] = "readMakernotes"]
               /\ UNCHANGED <<caught, responses>>
          ELSE /\ tags' = [tags EXCEPT ![r] = outcome.value]
               /\ Send(r, buildReadable(file[r], outcome.value))
               /\ pc' = [pc EXCEPT ![r] = afterFinally(FALSE)]
               /\ UNCHANGED <<caught, calls>>
    /\ UNCHANGED <<req, file, error, makernoteTags, unlinks, stored, uploads,
                   pathCounter, connected>>

\* A handler that starts the maker-notes read of /upload without awaiting
\* it: fullMetadata is sent without its result and finally arms the timer
\* while that read is still running.
FullSettleNoAwait(r) ==
    /\ pc[r] = "readFull"
    /\ settledCalls' = [settledCalls EXCEPT ![r] = @ + 1]
    /\ \E outcome \in ReadAll(uploads, file[r].path) :
          IF ~outcome.ok
          THEN /\ caught' = [caught EXCEPT ![r] = Error(outcome.message)]
               /\ Send(r, catchResponse(outcome.message))
               /\ pc' = [pc EXCEPT ![r] = afterFinally(TRUE)]
               /\ UNCHANGED <<tags, calls>>
          ELSE IF req[r].endpoint = "/upload"
          THEN /\ tags' = [tags EXCEPT ![r] = outcome.value]
               /\ calls' = [calls EXCEPT ![r] =
                              Append(@, ReadCall("makernotes", file[r].path))]
               /\ Send(r, buildFull(file[r], outcome.value, null))
               /\ pc' = [pc EXCEPT ![r] = afterFinally(FALSE)]
               /\ UNCHANGED caught
          ELSE /\ tags' = [tags EXCEPT ![r] = outcome.value]
               /\ Send(r, buildReadable(file[r], outcome.value))
               /\ pc' = [pc EXCEPT ![r] = afterFinally(FALSE)]
               /\ UNCHANGED <<caught, calls>>
    /\ UNCHANGED <<req, file, error, makernoteTags, unlinks, stored, uploads,
                   pathCounter, connected>>

\* The full read settles. Rejected: catch (500), then finally arms the
\* timer. Resolved on /upload-readable: res.json(formattedMetadata), then
\* finally. Resolved on /upload: the maker-notes read is issued.
FullSettle(r) ==
    /\ pc[r] = "readFull"
    /\ settledCalls' = [settledCalls EXCEPT ![r] = @ + 1]
    /\ \E outcome \in ReadAll(uploads, file[r].path) :
          IF ~outcome.ok
          THEN /\ caught' = [caught EXCEPT ![r] = Error(outcome.message)]
               /\ Send(r, catchResponse(outcome.message))
               /\ pc' = [pc EXCEPT ![r] = afterFinally(TRUE)]
               /\ UNCHANGED <<tags, calls>>
          ELSE IF req[r].endpoint = "/upload"
          THEN /\ tags' = [tags EXCEPT ![r] = outcome.value]
               /\ calls' = [calls EXCEPT ![r] =
                              Append(@, ReadCall("makernotes", file[r].path))]
               /\ pc' = [pc EXCEPT ![r] = "readMakernotes"]
               /\ UNCHANGED <<caught, responses>>
          ELSE /\ tags' = [tags EXCEPT ![r] = outcome.value]
               /\ Send(r, buildReadable(file[r], outcome.value))
               /\ pc' = [pc EXCEPT ![r] = afterFinally(FALSE)]
               /\ UNCHANGED <<caught, calls>>
    /\ UNCHANGED <<req, file, error, makernoteTags, unlinks, stored, uploads,
                   pathCounter, connected>>

\* The maker-notes read of /upload settles (its rejection turned into null
\* by .catch): res.json(fullMetadata), then finally arms the timer.
MakernotesSettle(r) ==
    /\ pc[r] = "readMakernotes"
    /\ settledCalls' = [settledCalls EXCEPT ![r] = @ + 1]
    /\ \E outcome \in ReadMakernotes(uploads, file[r].path) :
          LET settled == catchNull(outcome)
          IN  IF settled.ok
              THEN /\ makernoteTags' = [makernoteTags EXCEPT ![r] = settled.value]
                   /\ Send(r, buildFull(file[r], tags[r], settled.value))
                   /\ pc' = [pc EXCEPT ![r] = afterFinally(FALSE)]
                   /\ UNCHANGED caught
              ELSE /\ caught' = [caught EXCEPT ![r] = Error(settled.message)]
                   /\ UNCHANGED makernoteTags
                   /\ Send(r, catchResponse(settled.message))
                   /\ pc' = [pc EXCEPT ![r] = afterFinally(TRUE)]
    /\ UNCHANGED <<req, file, error, tags, calls, unlinks, stored, uploads,
                   pathCounter, connected>>

\* A cleanup that unlinks the file a second time when the first call worked.
CleanupTwice(r) ==
    /\ pc[r] = "timer"
    /\ \E ok \in UnlinkOutcomes(uploads, file[r].path) :
          /\ unlinks' = [unlinks EXCEPT ![r] =
                IF ok
                THEN @ \o << [path |-> file[r].path, by |-> "cleanup", ok |-> TRUE],
                             [path |-> file[r].path, by |-> "cleanup", ok |-> FALSE] >>
                ELSE Append(@, [path |-> file[r].path, by |-> "cleanup", ok |-> FALSE])]
          /\ uploads' = IF ok THEN RemoveFile(uploads, file[r].path) ELSE uploads
    /\ pc' = [pc EXCEPT ![r] = "done"]
    /\ UNCHANGED <<req, file, error, tags, makernoteTags, caught, calls,
                   responses, stored, pathCounter, settledCalls,
                   connected>>

\* A cleanup that reports a failed unlink to the client.
CleanupReports(r) ==
    /\ pc[r] = "timer"
    /\ \E ok \in UnlinkOutcomes(uploads, file[r].path) :
          /\ unlinks' = [unlinks EXCEPT ![r] =
                            Append(@, [path |-> file[r].path, by |-> "cleanup", ok |-> ok])]
          /\ uploads' = IF ok THEN RemoveFile(uploads, file[r].path) ELSE uploads
          /\ IF ok THEN UNCHANGED responses
                   ELSE Send(r, ErrorJson(500, "Error deleting temporary file"))
    /\ pc' = [pc EXCEPT ![r] = "done"]
    /\ UNCHANGED <<req, file, error, tags, makernoteTags, caught, calls,
                   stored, pathCounter, settledCalls,
                   connected>>

\* The setTimeout callback of the finally block, 1000 ms on:
\* fs.unlink(filePath, ...), whose error is only logged.
Cleanup(r) ==
    /\ pc[r] = "timer"
    /\ \E ok \in UnlinkOutcomes(uploads, file[r].path) :
          /\ unlinks' = [unlinks EXCEPT ![r] =
                            Append(@, [path |-> file[r].path, by |-> "cleanup", ok |-> ok])]
          /\ uploads' = IF ok THEN RemoveFile(uploads, file[r].path) ELSE uploads
    /\ pc' = [pc EXCEPT ![r] = "done"]
    /\ UNCHANGED <<req, file, error, tags, makernoteTags, caught, calls,
                   responses, stored, pathCounter, settledCalls,
                   connected>>

\* A handler that listens for 'close' and gives up: the pending read is
\* dropped and the handler ends there, its finally block never reached.
ClientDisconnectCancels(r) ==
    /\ pc[r] \in {"readFull", "readMakernotes"}
    /\ connected[r]
    /\ connected' = [connected EXCEPT ![r] = FALSE]
    /\ pc' = [pc EXCEPT ![r] = "done"]
    /\ UNCHANGED <<req, file, error, tags, makernoteTags, caught, calls,
                   settledCalls, responses, unlinks, stored, uploads,
                   pathCounter>>

\* The client closes its connection while a read is in flight. Neither
\* route listens for 'close' on req or res: the pending read, the handler
\* waiting on it and everything after it go on as they would have.
ClientDisconnect(r) ==
    /\ pc[r] \in {"readFull", "readMakernotes"}
    /\ connected[r]
    /\ connected' = [connected EXCEPT ![r] = FALSE]
    /\ UNCHANGED <<req, pc, file, error, tags, makernoteTags, caught, calls,
                   settledCalls, responses, unlinks, stored, uploads,
                   pathCounter>>

Next ==
    \E r \in Requests :
        \/ Receive(r)
        \/ MulterFilter(r)
        \/ MulterStore(r)
        \/ MulterAbort(r)
        \/ ErrorMiddleware(r)
        \/ RouteStart(r)
        \/ FullSettle(r)
        \/ MakernotesSettle(r)
        \/ Cleanup(r)
        \/ ClientDisconnect(r)

Spec == Init /\ [][Next]_vars

\* Well-formed uploads of every sampled size, and one over the limit.
FormatInputs ==
    [endpoint : Endpoints, part : {TRUE}, fieldname : {UploadField},
     mimetype : {"image/jpeg"}, size : SizeSamples \cup {MaxFileSize + 1},
     content : {""}]

\* A client sends a well-formed upload of one of the sampled sizes.
ReceiveSized(r) ==
    /\ pc[r] = "idle"
    /\ \E input \in FormatInputs : req' = [req EXCEPT ![r] = input]
    /\ pc' = [pc EXCEPT ![r] = "multer"]
    /\ UNCHANGED <<file, error, tags, makernoteTags, caught, calls, responses,
                   unlinks, stored, uploads, pathCounter, settledCalls,
                   connected>>

\* One request at a time, over the sampled sizes.
FormatNext ==
    \E r \in {1} :
        \/ ReceiveSized(r)
        \/ MulterFilter(r)
        \/ MulterStore(r)
        \/ MulterAbort(r)
        \/ ErrorMiddleware(r)
        \/ RouteStart(r)
        \/ FullSettle(r)
        \/ MakernotesSettle(r)
        \/ Cleanup(r)
        \/ ClientDisconnect(r)

FormatSpec == Init /\ [][FormatNext]_vars

\* The event loop keeps running whatever is ready: a parsed part is
\* filtered and stored, a settled promise resumes its handler, an expired
\* timer runs its callback; exiftool-vendored settles every read it is
\* given. Every request's handling is finite, so weak fairness of Next
\* drives each request to its end.
FairSpec == Spec /\ WF_vars(Next)

\* ------------------------------------------------------ claim vocabulary

\* req.file was set: the upload was persisted to the uploads directory.
Persisted(r) == file[r] /= NoFile

Answered(r) == Len(responses[r]) >= 1
Answer(r) == responses[r][1]

FullFields == {"basicInfo", "metadata", "makernotes"}
ReadableFields == {"fileInfo", "metadata"}

Placeholder == Str(PlaceholderText)

\* The successful fs.unlink calls any request made on `path`.
Removals(path) ==
    { <<r, i>> \in Requests \X (1..2) :
        i <= Len(unlinks[r]) /\ unlinks[r][i].path = path /\ unlinks[r][i].ok }

\* ---------------------------------------------------------------------- C1

\* C1 as stated: once the handling of a request with a persisted upload is
\* over (its timer has run; nothing later touches the file), the temp file
\* is gone from the uploads directory.
C1_Original ==
    \A r \in Requests :
        pc[r] = "done" /\ Persisted(r) => file[r].path \notin DOMAIN uploads

\* C1 (amended): every request with a persisted upload is eventually
\* answered 200 or 500 and has fs.unlink called on its temp file; the file
\* is gone from the uploads directory if that call succeeded.
C1_CleanupEventuallyRuns ==
    \A r \in Requests :
        Persisted(r) ~>
            /\ pc[r] = "done"
            /\ Len(responses[r]) = 1 /\ Answer(r).status \in {200, 500}
            /\ Len(unlinks[r]) = 1
            /\ unlinks[r][1].path = file[r].path
            /\ unlinks[r][1].ok => file[r].path \notin DOMAIN uploads

C1_Witness ==
    \E r \in Requests :
        /\ Persisted(r) /\ pc[r] = "done"
        /\ Answer(r).status = 500
        /\ unlinks[r][1].ok /\ file[r].path \notin DOMAIN uploads

\* ---------------------------------------------------------------------- C2

\* C2 as stated: when a request whose part reached the uploads directory
\* is over, its storage path has been deleted exactly once.
C2_Original ==
    \A r \in Requests :
        pc[r] = "done" /\ stored[r] /= 0 => Cardinality(Removals(stored[r])) = 1

\* C2 (amended): fs.unlink is called at most once on any storage path, and
\* exactly once by the time the request that wrote it is over, whether the
\* extraction succeeded, lost its maker-notes pass, or threw; the file is
\* then in the uploads directory only if that one call failed.
C2_UnlinkedExactlyOnce ==
    \A r \in Requests :
        /\ Len(unlinks[r]) <= 1
        /\ \A i \in 1..Len(unlinks[r]) : unlinks[r][i].path = stored[r] /\ stored[r] /= 0
        /\ \A q \in Requests : q /= r /\ stored[r] /= 0 => stored[q] /= stored[r]
        /\ pc[r] = "done" /\ stored[r] /= 0 =>
              /\ Len(unlinks[r]) = 1
              /\ stored[r] \in DOMAIN uploads <=> ~unlinks[r][1].ok

C2_Witness ==
    \E r \in Requests :
        /\ pc[r] = "done" /\ req[r].endpoint = "/upload"
        /\ Answer(r).status = 200 /\ Answer(r).body.makernotes = Placeholder
        /\ Len(unlinks[r]) = 1 /\ unlinks[r][1].ok
        /\ stored[r] \notin DOMAIN uploads

\* ---------------------------------------------------------------------- C3

\* C3 as stated, for a file part sent under the upload field: a declared
\* MIME type outside {image/jpeg, image/jpg} never gets a temp file, and
\* the request is answered 400 "Only JPEG files are allowed!".
C3_Original ==
    \A r \in Requests :
        /\ req[r].part /\ req[r].fieldname = UploadField
        /\ req[r].mimetype \notin {"image/jpeg", "image/jpg"}
        => /\ stored[r] = 0
           /\ pc[r] = "done" =>
                 Answer(r) = ErrorJson(400, "Only JPEG files are allowed!")

\* ---------------------------------------------------------------------- C4

\* C4: on POST /upload, once the full read has resolved, nothing is caught
\* and the one response is 200 with the full payload, whatever the
\* maker-notes read does.
C4_MakernotesFailureAbsorbed ==
    \A r \in Requests :
        req[r].endpoint = "/upload" /\ tags[r] /= null =>
            /\ caught[r] = NoError
            /\ pc[r] \in {"timer", "done"} => Len(responses[r]) = 1
            /\ Answered(r) =>
                  /\ Answer(r).status = 200
                  /\ Answer(r).body.fields = FullFields
                  /\ Answer(r).body.metadata = tags[r]

C4_Witness ==
    \E r \in Requests :
        /\ req[r].endpoint = "/upload" /\ req[r].content = "exif"
        /\ Answered(r) /\ Answer(r).status = 200
        /\ makernoteTags[r] = null
        /\ Answer(r).body.makernotes = Placeholder

\* ---------------------------------------------------------------------- C5

C6_FullFailurePropagates ==
    \A r \in Requests :
        Persisted(r) /\ pc[r] \in {"timer", "done"} /\ tags[r] = null =>
            /\ Len(responses[r]) = 1
            /\ Answer(r).status = 500
            /\ Answer(r).body.fields = {"error", "details"}
            /\ Answer(r).body.error = "Error processing image"
            /\ Answer(r).body.details = caught[r].message
            /\ Answer(r).body.details \in {"File format error", "BatchCluster has ended"}
            /\ req[r].content = "corrupt" => Answer(r).body.details = "File format error"
            /\ Answer(r).body.metadata = null /\ Answer(r).body.makernotes = null

C6_Witness ==
    \E r, q \in Requests :
        /\ req[r].endpoint = "/upload" /\ req[q].endpoint = "/upload-readable"
        /\ req[r].content = "corrupt" /\ req[q].content = "exif"
        /\ Answered(r) /\ Answer(r).status = 500
        /\ Answered(q) /\ Answer(q).body.details = "BatchCluster has ended"

\* ---------------------------------------------------------------------- C7

SuccessPayload(response) ==
    /\ response.status = 200
    /\ response.body.fields \in {FullFields, ReadableFields}
    /\ response.body.error = "" /\ response.body.details = ""
    /\ response.body.metadata.t = "object"
    /\ response.body.fields = FullFields => response.body.makernotes /= null

ErrorObject(response) ==
    /\ response.status \in {400, 500}
    /\ response.body.fields \in {{"error"}, {"error", "details"}}
    /\ response.body.error /= ""
    /\ response.body.metadata = null /\ response.body.makernotes = null

\* C7: no request is answered twice, a request whose handling is over has
\* been answered once, and every response is either the full success
\* payload or an error object, never a mix of the two.
C7_ExactlyOneResponse ==
    \A r \in Requests :
        /\ Len(responses[r]) <= 1
        /\ pc[r] \in {"timer", "done"} => Len(responses[r]) = 1
        /\ \A i \in 1..Len(responses[r]) :
              /\ SuccessPayload(responses[r][i]) \/ ErrorObject(responses[r][i])
              /\ ~(SuccessPayload(responses[r][i]) /\ ErrorObject(responses[r][i]))

C7_Witness ==
    \E r, q \in Requests :
        /\ pc[r] = "done" /\ pc[q] = "done"
        /\ SuccessPayload(Answer(r)) /\ ErrorObject(Answer(q))
        /\ ~req[q].part

\* ---------------------------------------------------------------------- C8

\* The request was refused at intake for one of the three reasons: it
\* carried no file part, fileFilter refused its type, or its part, being
\* streamed to disk, turned out larger than the ceiling.
IntakeRejected(r) ==
    /\ pc[r] \notin {"idle", "multer"}
    /\ \/ ~req[r].part
       \/ error[r].message = "Only JPEG files are allowed!"
       \/ stored[r] /= 0 /\ req[r].size > MaxFileSize

\* C8: a request refused at intake never has an exiftool.read call issued
\* for it, and its one response is a 400; a read is only ever issued for
\* a request whose upload was persisted.
C8_IntakeRejectedBeforeExtraction ==
    \A r \in Requests :
        /\ IntakeRejected(r) =>
              /\ calls[r] = <<>>
              /\ Answered(r) => Answer(r).status = 400
              /\ pc[r] = "done" => Len(responses[r]) = 1
        /\ calls[r] /= <<>> => Persisted(r)

C8_Witness ==
    \E r, q \in Requests :
        /\ pc[r] = "done" /\ req[r].size > MaxFileSize
        /\ Answer(r).status = 400 /\ calls[r] = <<>>
        /\ pc[q] = "done" /\ req[q].mimetype = "image/png" /\ req[q].fieldname = UploadField
        /\ Answer(q).status = 400 /\ calls[q] = <<>>

\* ---------------------------------------------------------------------- C9

\* C9: a request multer failed is answered once, by the error middleware,
\* according to the failure multer raised: 400 with the too-large message
\* for LIMIT_FILE_SIZE, which is what every part over the 50 MiB ceiling
\* that reached storage ends in; 400 "Only JPEG files are allowed!" for
\* the filter's error; 500 with the generic message and no details field
\* for any other error.
C9_ErrorHandlerMapping ==
    \A r \in Requests :
        /\ pc[r] = "done" /\ error[r] /= NoError =>
              /\ Len(responses[r]) = 1
              /\ Answer(r).body.fields = {"error"}
              /\ IF error[r].multer /\ error[r].code = "LIMIT_FILE_SIZE"
                 THEN /\ Answer(r).status = 400
                      /\ Answer(r).body.error = "File too large. Maximum size is 50MB."
                 ELSE IF error[r].message = "Only JPEG files are allowed!"
                 THEN /\ Answer(r).status = 400
                      /\ Answer(r).body.error = "Only JPEG files are allowed!"
                 ELSE /\ Answer(r).status = 500
                      /\ Answer(r).body.error = "An unexpected error occurred."
        /\ pc[r] = "done" /\ stored[r] /= 0 /\ req[r].size > 52428800 =>
              /\ error[r].code = "LIMIT_FILE_SIZE"
              /\ Answer(r).status = 400
              /\ Answer(r).body.error = "File too large. Maximum size is 50MB."

C9_Witness ==
    \E r, q \in Requests :
        /\ pc[r] = "done" /\ req[r].size = 52428801
        /\ Answer(r).body.error = "File too large. Maximum size is 50MB."
        /\ pc[q] = "done" /\ error[q].code = "LIMIT_UNEXPECTED_FILE"
        /\ Answer(q).status = 500 /\ Answer(q).body.fields = {"error"}

\* --------------------------------------------------------------------- C10

\* C10: the cleanup's fs.unlink is only ever called on the file of a
\* request that has been answered, and from the moment a request is
\* answered its response never changes: no step, the unlink and its
\* failure included, adds to it or replaces it.
C10_CleanupAfterResponse ==
    /\ [](\A r \in Requests :
            \A i \in 1..Len(unlinks[r]) :
                unlinks[r][i].by = "cleanup" => Len(responses[r]) = 1)
    /\ [][\A r \in Requests : Answered(r) => responses'[r] = responses[r]]_vars

C10_Witness ==
    \E r \in Requests :
        /\ pc[r] = "done" /\ Len(unlinks[r]) = 1
        /\ unlinks[r][1].by = "cleanup" /\ ~unlinks[r][1].ok
        /\ file[r].path \in DOMAIN uploads
        /\ Len(responses[r]) = 1 /\ Answer(r).status = 200

\* --------------------------------------------------------------------- C11

\* The upload of request r is on disk and its handler has not finished.
Live(r) == Persisted(r) /\ pc[r] \in {"route", "readFull", "readMakernotes", "timer"}

\* C11: requests in flight together do not meet in the uploads directory.
\* No two uploads were stored under the same path; every exiftool.read a
\* request issues and every fs.unlink made for it is on its own path; and
\* until its own cleanup runs, the file at its path holds its own bytes.
C11_RequestsIndependent ==
    /\ \A r, q \in Requests :
          r /= q /\ stored[r] /= 0 /\ stored[q] /= 0 => stored[r] /= stored[q]
    /\ \A r \in Requests :
          /\ Persisted(r) => file[r].path = stored[r]
          /\ \A i \in 1..Len(calls[r]) : calls[r][i].path = stored[r]
          /\ \A i \in 1..Len(unlinks[r]) : unlinks[r][i].path = stored[r]
          /\ Live(r) => /\ file[r].path \in DOMAIN uploads
                        /\ uploads[file[r].path] = req[r].content

\* One request's cleanup has removed its file while an upload stored
\* before it is still being read, its file in place.
C11_Witness ==
    \E r, q \in Requests :
        /\ r /= q
        /\ pc[r] = "done" /\ Persisted(r)
        /\ Len(unlinks[r]) = 1 /\ unlinks[r][1].ok
        /\ pc[q] \in {"readFull", "readMakernotes"}
        /\ stored[q] < stored[r]
        /\ file[q].path \in DOMAIN uploads

\* --------------------------------------------------------------------- C12

\* C12: a client that disconnects while a read is in flight changes nothing
\* for the handler. Every read the request issued settles, and fs.unlink is
\* then called, once, from the timer of the finally block, on the
\* request's temp file.
C12_DisconnectStillCleansUp ==
    \A r \in Requests :
        (~connected[r]) ~>
            /\ pc[r] = "done"
            /\ settledCalls[r] = Len(calls[r])
            /\ Len(unlinks[r]) = 1
            /\ unlinks[r][1].by = "cleanup"
            /\ unlinks[r][1].path = file[r].path

C12_Witness ==
    \E r \in Requests :
        /\ ~connected[r] /\ pc[r] = "done"
        /\ settledCalls[r] = Len(calls[r]) /\ Len(calls[r]) >= 1
        /\ Len(unlinks[r]) = 1 /\ unlinks[r][1].by = "cleanup"

\* --------------------------------------------------------------------- C13

\* How many of the reads request r issued are of `kind`.
CallCount(r, kind) ==
    Cardinality({ i \in 1..Len(calls[r]) : calls[r][i].kind = kind })

\* The handler of r has gone past its first exiftool.read.
Extracting(r) == pc[r] \in {"readFull", "readMakernotes", "timer", "done"}

\* C13: the reads of a request are fixed in number and never repeated. A
\* request without a persisted file issues none; one with a persisted
\* file issues the full read exactly once, and when that read is rejected
\* the 500 with its message is the answer and no other read was issued.
\* POST /upload issues the maker-notes read at most once; POST
\* /upload-readable never issues it and its answers carry no makernotes
\* field.
C13_FixedNumberOfCalls ==
    \A r \in Requests :
        /\ ~Persisted(r) => calls[r] = <<>>
        /\ Persisted(r) /\ Extracting(r) =>
              /\ CallCount(r, "full") = 1
              /\ calls[r][1].kind = "full"
        /\ CallCount(r, "full") + CallCount(r, "makernotes") = Len(calls[r])
        /\ CallCount(r, "makernotes") <= 1
        /\ caught[r] /= NoError =>
              /\ Len(calls[r]) = 1
              /\ responses[r] = <<catchResponse(caught[r].message)>>
        /\ req[r].endpoint = "/upload-readable" =>
              /\ CallCount(r, "makernotes") = 0
              /\ \A i \in 1..Len(responses[r]) :
                    "makernotes" \notin responses[r][i].body.fields

\* A POST /upload answered 200 after its two reads, next to a POST
\* /upload-readable answered after its single read (200, or the 500 of a
\* rejected read).
C13_Witness ==
    \E r, q \in Requests :
        /\ pc[r] = "done" /\ req[r].endpoint = "/upload"
        /\ Len(calls[r]) = 2 /\ Answer(r).status = 200
        /\ pc[q] = "done" /\ req[q].endpoint = "/upload-readable"
        /\ Len(calls[q]) = 1 /\ Answer(q).status \in {200, 500}
        /\ Answer(q).status = 500 => caught[q] /= NoError

\* --------------------------------------------------------------------- C14

DigitValue(c) ==
    CASE c = "0" -> 0 [] c = "1" -> 1 [] c = "2" -> 2 [] c = "3" -> 3
      [] c = "4" -> 4 [] c = "5" -> 5 [] c = "6" -> 6 [] c = "7" -> 7
      [] c = "8" -> 8 [] c = "9" -> 9 [] OTHER -> -1

\* A non-empty run of decimal digits, without a needless leading zero.
IsDecimal(s) ==
    /\ Len(s) >= 1
    /\ \A i \in 1..Len(s) : DigitValue(SubSeq(s, i, i)) >= 0
    /\ Len(s) > 1 => SubSeq(s, 1, 1) /= "0"

RECURSIVE ParseDecimal(_)
ParseDecimal(s) ==
    IF Len(s) = 0 THEN 0
    ELSE ParseDecimal(SubSeq(s, 1, Len(s) - 1)) * 10
         + DigitValue(SubSeq(s, Len(s), Len(s)))

\* text is "<digits>.<two digits> MB".
IsMBText(text) ==
    /\ Len(text) >= 7
    /\ SubSeq(text, Len(text) - 2, Len(text)) = " MB"
    /\ SubSeq(text, Len(text) - 5, Len(text) - 5) = "."
    /\ IsDecimal(SubSeq(text, 1, Len(text) - 6))
    /\ \A i \in {Len(text) - 4, Len(text) - 3} :
          DigitValue(SubSeq(text, i, i)) >= 0

\* The number in an MB text, in hundredths.
Hundredths(text) ==
    ParseDecimal(SubSeq(text, 1, Len(text) - 6)) * 100
    + ParseDecimal(SubSeq(text, Len(text) - 4, Len(text) - 3))

\* h hundredths is a nearest hundredth to size / 1048576:
\* |h / 100 - size / 2^20| <= 1 / 200, with both sides times 25 * 2^20.
NearestHundredth(h, size) ==
    LET d == h * 262144 - size * 25
    IN  d <= 131072 /\ -d <= 131072

\* C14: whenever POST /upload-readable answers 200, the upload's size is
\* within 0..50 MiB and fileInfo.fileSize is "<digits>.<two digits> MB",
\* its number a nearest hundredth to size / 1048576.
C14_FileSizeTwoDecimals ==
    \A r \in Requests : \A i \in 1..Len(responses[r]) :
        LET answer == responses[r][i]
            text == answer.body.info.sizeText
        IN  answer.status = 200 /\ "fileInfo" \in answer.body.fields =>
                /\ file[r].size \in 0..MaxFileSize
                /\ answer.body.info.size = file[r].size
                /\ IsMBText(text)
                /\ NearestHundredth(Hundredths(text), file[r].size)

\* 5243 bytes, just over 0.005 MiB, answered as "0.01 MB".
C14_Witness ==
    \E r \in Requests :
        /\ Answered(r) /\ Answer(r).status = 200
        /\ "fileInfo" \in Answer(r).body.fields
        /\ file[r].size = 5243
        /\ Answer(r).body.info.sizeText = "0.01 MB"

\* --------------------------------------------------------------------- C15

\* A read request r issued has not settled yet.
InFlight(r) == settledCalls[r] < Len(calls[r])

\* C15: while a read of a request is in flight, its handler is waiting on
\* that read: the timer of the finally block is not armed, no fs.unlink
\* has been called for the request, and its temp file is in the uploads
\* directory. Once the timer is armed, every read the request issued has
\* settled.
C15_NoDeletionWhileInFlight ==
    \A r \in Requests :
        /\ InFlight(r) =>
              /\ pc[r] \in {"readFull", "readMakernotes"}
              /\ settledCalls[r] = Len(calls[r]) - 1
              /\ unlinks[r] = <<>>
              /\ file[r].path \in DOMAIN uploads
        /\ pc[r] \in {"timer", "done"} => ~InFlight(r)

\* The maker-notes read of one request is in flight, its file untouched,
\* while the other request has already had its own file removed.
C15_Witness ==
    \E r, q \in Requests :
        /\ r /= q
        /\ InFlight(r) /\ pc[r] = "readMakernotes" /\ settledCalls[r] = 1
        /\ file[r].path \in DOMAIN uploads
        /\ pc[q] = "done" /\ Len(unlinks[q]) = 1 /\ unlinks[q][1].ok

\* --------------------------------------------------------------------- C16

\* C16: on POST /upload the maker-notes read comes second and only after
\* the full read has resolved: when it is among the reads issued, the full
\* read was issued before it, has settled, and gave its tags. When the
\* full read was rejected, it is the only read the request issued.
C16_MakernotesAfterFull ==
    \A r \in Requests :
        /\ \A i \in 1..Len(calls[r]) :
              calls[r][i].kind = "makernotes" =>
                  /\ req[r].endpoint = "/upload"
                  /\ i = 2 /\ calls[r][1].kind = "full"
                  /\ settledCalls[r] >= 1
                  /\ tags[r] /= null
                  /\ caught[r] = NoError
        /\ req[r].endpoint = "/upload" /\ settledCalls[r] >= 1 /\ tags[r] = null =>
              /\ caught[r] /= NoError
              /\ Len(calls[r]) = 1 /\ calls[r][1].kind = "full"

\* Two POST /upload requests at their end: one whose full read was
\* rejected, with that single read; one whose full read resolved, with the
\* maker-notes read after it.
C16_Witness ==
    \E r, q \in Requests :
        /\ req[r].endpoint = "/upload" /\ pc[r] = "done"
        /\ caught[r] /= NoError /\ Len(calls[r]) = 1
        /\ req[q].endpoint = "/upload" /\ pc[q] = "done"
        /\ Len(calls[q]) = 2 /\ calls[q][2].kind = "makernotes"
        /\ settledCalls[q] = 2


====
